---- MODULE Spec2Model ----
(***************************************************************************)
(* Model of packages/vite/src/node/ssr/ssrModuleLoader.ts: the memoized,   *)
(* circular-safe instantiation of SSR modules.                             *)
(*                                                                         *)
(* Every call of instantiateModule is an "activation", numbered in the     *)
(* order the calls are made; the promise it returns (modulePromise) and    *)
(* the Module Object it may create carry the activation's number.  The     *)
(* JavaScript event loop is single threaded: an action is one synchronous  *)
(* run of code between two suspension points.                              *)
(*                                                                         *)
(* Spec covers projects whose modules import project paths only, SpecExt   *)
(* those that also re-export (ssrExportAll), guard an import by a catch    *)
(* and import packages through nodeImport; ShimSpec applies proxyESM and   *)
(* getDefaultExport to the values a native load may return.                *)
(***************************************************************************)
EXTENDS Naturals, Sequences, FiniteSets, TLC

\* Canonical module identifiers (after unwrapId) and export names.
Urls == {"/a", "/b", "/c"}

\* Specifiers of packages outside the project.
Packages == {"pkg", "node:fs"}

\* The strings that occur as an import specifier; the tables and the module
\* graph are keyed by strings.
Ids == Urls \cup Packages

\* dep[0] of every specifier the modules import.
FirstChar ==
  "/a" :> "/" @@ "/b" :> "/" @@ "/c" :> "/" @@ "pkg" :> "p" @@ "node:fs" :> "n"

\* The records whose transform result may already be cached when the first
\* load arrives (the transform collaborator owns the slot).
Cacheable == {"/b"}

\* Bounds of the exploration.
MaxCalls == 2
MaxInst == 4

None == 0

Imp(d) == [t |-> "import", arg |-> d]
Exp(k) == [t |-> "export", arg |-> k]
\* An import whose failure the module's code catches (try/catch around it).
Try(d) == [t |-> "try", arg |-> d]
\* __vite_ssr_exportAll__ applied to what the import of d returned.
ExpAll(d) == [t |-> "exportAll", arg |-> d]

\* The compiled code of the modules (result.code handed to initModule): the
\* sequence of imports and export definitions each module performs.
\*   1: /a and /b import each other, /a is partially populated meanwhile
\*   2: /a imports /c and then /b (sequential imports), /b and /c import /a
\*   3: the transitive cycle /a -> /b -> /c -> /a
Programs ==
  << ("/a" :> <<Exp("x"), Imp("/b"), Exp("y")>> @@
      "/b" :> <<Imp("/a"), Exp("x")>> @@
      "/c" :> <<Exp("x")>>),
     ("/a" :> <<Imp("/c"), Imp("/b"), Exp("x")>> @@
      "/b" :> <<Imp("/a"), Exp("x")>> @@
      "/c" :> <<Imp("/a"), Exp("x")>>),
     ("/a" :> <<Imp("/b"), Exp("x")>> @@
      "/b" :> <<Imp("/c"), Exp("x")>> @@
      "/c" :> <<Imp("/a"), Exp("x")>>) >>

\* Projects that use the rest of the sandbox interface:
\*   4: /b re-exports all of /c and then defines x itself; /c imports /b
\*      while partially populated and goes on defining exports
\*   5: /a imports /c guarded by a catch, and two packages from outside the
\*      project; /c imports /a
Projects ==
  Programs \o
  << ("/a" :> <<Exp("x")>> @@
      "/b" :> <<Imp("/c"), ExpAll("/c"), Exp("x")>> @@
      "/c" :> <<Exp("x"), Exp("y"), Exp("default"), Imp("/b"), Exp("y"),
                Exp("z")>>),
     ("/a" :> <<Try("/c"), Imp("pkg"), Imp("node:fs")>> @@
      "/b" :> <<Exp("x")>> @@
      "/c" :> <<Imp("/a")>>) >>

VARIABLES
  graph,               \* which of Programs the project consists of
  ssrTransformResult,  \* records that hold a cached transform result
  ssrModule,           \* mod.ssrModule of every record (None: not populated)
  pendingModules,      \* Pending Instantiation Table: url -> promise
  pendingImports,      \* Pending Import Table: url -> the pendingDeps array
                       \* (of the activation named) registered under url
  inst,                \* the activations of instantiateModule
  calls,               \* the top-level ssrLoadModule calls and their promises
  hooks,               \* resolution hooks installed and not yet removed
  shim                 \* an Interop Shim over a loaded external module

vars == <<graph, ssrTransformResult, ssrModule, pendingModules,
          pendingImports, inst, calls, hooks, shim>>

Code(u) == Projects[graph][u]

\* The export names in use; "w" is the one a caller tries to write.
Keys == {"x", "y", "z", "default", "w"}

\* The value of an exported binding: the n-th one assigned to it by the
\* code that ran for object by.  NoValue stands for undefined.
NoValue == [by |-> 0, n |-> 0]

\* A property of a Module Object: a module's own export (src = 0) holding
\* the binding's current value v, or the accessor ssrExportAll installed,
\* which reads the key from object src.
NoProp == [src |-> 0, v |-> NoValue]

\* The shim variable while no Interop Shim is under study.
NoShim == [pc |-> "off"]

Insts == 1..Len(inst)

\* A fresh activation: instantiateModule(url, server, context, urlStack) up
\* to its first await.
NewInst(u, stack) ==
  [url |-> u, stack |-> stack, pc |-> "ensure", ip |-> 1,
   pendingDeps |-> <<>>, dep |-> "", wait |-> None,
   val |-> None, cl |-> "none", tr |-> "none", via |-> "none",
   obj |-> FALSE, keys |-> {}, frozen |-> FALSE, got |-> <<>>,
   ext |-> "none", props |-> [k \in Keys |-> NoProp], reexp |-> <<>>]

Settled(r) == r.pc \in {"fulfilled", "rejected"}

InFlight(i) == ~Settled(inst[i])

\* modulePromise resolves with object v / rejects with the error raised in
\* activation e; its .catch callback is the first reaction to run.
Resolve(r, v) == [r EXCEPT !.pc = "fulfilled", !.val = v, !.cl = "catch"]

Reject(r, e) == [r EXCEPT !.pc = "rejected", !.val = e, !.cl = "catch"]

\* pendingModules.get(url)
NoLookup(pm, u) == None

LookupPending(pm, u) == pm[u]

\* if (mod.ssrModule)
NeverPopulated(sm, u) == FALSE

Populated(sm, u) == sm[u] # None

\* const isCircular = (url) => urlStack.includes(url)
NotCircular(stack, u) == FALSE

isCircular(stack, u) == \E k \in 1..Len(stack) : stack[k] = u

\* The array pendingImports.get(dep) refers to, <<>> when there is none.
PendingOf(dep) ==
  IF pendingImports[dep] = None THEN <<>>
  ELSE inst[pendingImports[dep]].pendingDeps

\* The negation of line 127: the import skips the recursive load.
ShortCircuitInFlight(stack, dep) ==
  \/ isCircular(stack, dep)
  \/ pendingModules[dep] # None

ShortCircuit(stack, dep) ==
  \/ isCircular(stack, dep)
  \/ \E k \in 1..Len(PendingOf(dep)) : isCircular(stack, PendingOf(dep)[k])

\* if (dep[0] !== '.' && dep[0] !== '/'): the specifier is not a project
\* path and goes to the Platform Bridge.
NeverExternal(dep) == FALSE

External(dep) == FirstChar[dep] \notin {".", "/"}

\* id.startsWith('node:') || isBuiltin(id)
Builtin(id) == id = "node:fs"

\* hookNodeResolve installs a resolution hook and returns the function
\* that removes it.
hookNodeResolve(h) == h + 1

unhookNodeResolve(h) == h - 1

\* nodeImport(id, ...) up to its first suspension, lines 229-264: the hook
\* is installed, then the specifier is resolved unless it names a builtin;
\* viteResolve throws ERR_MODULE_NOT_FOUND when nothing is found, and only
\* otherwise is the try block with the native load entered.
nodeImport(h, id, found) ==
  [hooks |-> hookNodeResolve(h),
   ext |-> IF Builtin(id) \/ found THEN "loading" ELSE "notfound"]

\* The hooks installed once the call has settled: finally
\* { unhookNodeResolve() } guards the native load only.
nodeImportExit(h, ext) == IF ext = "loading" THEN unhookNodeResolve(h) ELSE h

\* ssrLoadModule(u, ..., stack), its synchronous body: the promise returned
\* and the tables after it.
LoadNoRegister(u, stack, pm, ins) ==
  IF pm[u] # None
  THEN [fut |-> pm[u], pm |-> pm, inst |-> ins]
  ELSE [fut |-> Len(ins) + 1, pm |-> pm, inst |-> Append(ins, NewInst(u, stack))]

ssrLoadModule(u, stack, pm, ins) ==
  IF LookupPending(pm, u) # None
  THEN [fut |-> LookupPending(pm, u), pm |-> pm, inst |-> ins]
  ELSE [fut |-> Len(ins) + 1,
        pm |-> [pm EXCEPT ![u] = Len(ins) + 1],
        inst |-> Append(ins, NewInst(u, stack))]

CanLoad(u) == LookupPending(pendingModules, u) # None \/ Len(inst) < MaxInst

\* pendingDeps.splice(pendingDeps.indexOf(dep), 1); indexOf yields -1 when
\* dep is absent and splice(-1, 1) then drops the last element.
Splice(s, d) ==
  IF \E k \in 1..Len(s) : s[k] = d
  THEN LET k == CHOOSE k \in 1..Len(s) :
                  s[k] = d /\ \A j \in 1..(k - 1) : s[j] # d
       IN  SubSeq(s, 1, k - 1) \o SubSeq(s, k + 1, Len(s))
  ELSE SubSeq(s, 1, Len(s) - 1)

Init ==
  /\ graph \in DOMAIN Programs
  /\ ssrTransformResult \in SUBSET Cacheable
  /\ ssrModule = [u \in Ids |-> None]
  /\ pendingModules = [u \in Ids |-> None]
  /\ pendingImports = [u \in Ids |-> None]
  /\ inst = <<>>
  /\ calls = <<>>
  /\ hooks = 0
  /\ shim = NoShim

\* A caller (the SSR request handler) calls ssrLoadModule(u, server).
Load(u) ==
  /\ Len(calls) < MaxCalls
  /\ CanLoad(u)
  /\ LET L == ssrLoadModule(u, <<>>, pendingModules, inst)
     IN  /\ calls' = Append(calls, [url |-> u, fut |-> L.fut])
         /\ pendingModules' = L.pm
         /\ inst' = L.inst
  /\ UNCHANGED <<hooks, shim, graph, ssrTransformResult, ssrModule, pendingImports>>

\* Lines 81-96: the Module Object is created and attached to the record,
\* the url joins the call chain, and the module's code starts to run.
Attach(r, how) ==
  [r EXCEPT !.obj = TRUE, !.tr = how, !.stack = Append(r.stack, r.url),
            !.pc = "run"]

\* moduleGraph.ensureEntryFromUrl(url) has resolved: lines 67-79.
EnsureDone(i) ==
  /\ inst[i].pc = "ensure"
  /\ LET r == inst[i]
     IN  IF Populated(ssrModule, r.url)
         THEN /\ inst' = [inst EXCEPT
                    ![i] = [Resolve(r, ssrModule[r.url]) EXCEPT !.via = "record"]]
              /\ UNCHANGED ssrModule
         ELSE IF r.url \in ssrTransformResult
         THEN /\ inst' = [inst EXCEPT ![i] = Attach(r, "cached")]
              /\ ssrModule' = [ssrModule EXCEPT ![r.url] = i]
         ELSE /\ inst' = [inst EXCEPT ![i] = [r EXCEPT !.pc = "transform",
                                                       !.tr = "called"]]
              /\ UNCHANGED ssrModule
  /\ UNCHANGED <<hooks, shim, graph, ssrTransformResult, pendingModules, pendingImports,
                 calls>>

\* transformRequest(url, server, {ssr: true}) has resolved, with a result
\* (ok) or with none: lines 75-96.
TransformDone(i, ok) ==
  /\ inst[i].pc = "transform"
  /\ LET r == inst[i]
     IN  IF ok
         THEN /\ inst' = [inst EXCEPT ![i] = Attach(r, "ok")]
              /\ ssrModule' = [ssrModule EXCEPT ![r.url] = i]
         ELSE /\ inst' = [inst EXCEPT ![i] = [Reject(r, i) EXCEPT !.tr = "fail"]]
              /\ UNCHANGED ssrModule
  /\ UNCHANGED <<hooks, shim, graph, ssrTransformResult, pendingModules, pendingImports,
                 calls>>

Running(i) ==
  /\ inst[i].pc = "run"
  /\ inst[i].ip <= Len(Code(inst[i].url))

Op(i) == Code(inst[i].url)[inst[i].ip]

\* The value a read of key k on object o yields, following at most n
\* accessors.
RECURSIVE ReadKey(_, _, _)
ReadKey(o, k, n) ==
  IF o = None THEN NoValue
  ELSE IF k \notin inst[o].keys THEN NoValue
  ELSE IF inst[o].props[k].src = 0 THEN inst[o].props[k].v
  ELSE IF n = 0 THEN NoValue
  ELSE ReadKey(inst[o].props[k].src, k, n - 1)

\* The properties of object o after code (re)defines k as o's own export:
\* a getter on the binding, whose value changes at each assignment.
DefineOwn(o, k) ==
  [inst[o].props EXCEPT
     ![k] = [src |-> 0,
             v |-> [by |-> o,
                    n |-> IF k \in inst[o].keys /\ @.src = 0 THEN @.v.n + 1
                          ELSE 1]]]

\* The module's code defines an export on its Module Object, or assigns
\* the exported binding again.
RunExport(i) ==
  /\ Running(i)
  /\ Op(i).t = "export"
  /\ inst' = [inst EXCEPT ![i].keys = @ \cup {Op(i).arg},
                          ![i].props = DefineOwn(i, Op(i).arg),
                          ![i].ip = @ + 1]
  /\ UNCHANGED <<hooks, shim, graph, ssrTransformResult, ssrModule, pendingModules,
                 pendingImports, calls>>

\* The module's code calls ssrImport(dep), dep a project path: lines 126-141
\* up to the await of the recursive load.
RunImport(i) ==
  /\ Running(i)
  /\ Op(i).t \in {"import", "try"}
  /\ ~External(Op(i).arg)
  /\ LET r == inst[i]
         dep == Op(i).arg
     IN  IF ShortCircuit(r.stack, dep)
         THEN /\ inst' = [inst EXCEPT
                    ![i].got = Append(@, [dep |-> dep, val |-> ssrModule[dep],
                                          direct |-> TRUE]),
                    ![i].ip = @ + 1]
              /\ UNCHANGED <<pendingModules, pendingImports>>
         ELSE /\ CanLoad(dep)
              /\ LET pd == Append(r.pendingDeps, dep)
                     L == ssrLoadModule(dep, r.stack, pendingModules, inst)
                 IN  /\ pendingImports' =
                          IF Len(pd) = 1
                          THEN [pendingImports EXCEPT ![r.url] = i]
                          ELSE pendingImports
                     /\ pendingModules' = L.pm
                     /\ inst' = [L.inst EXCEPT
                           ![i] = [r EXCEPT !.pendingDeps = pd, !.dep = dep,
                                            !.wait = L.fut, !.pc = "await"]]
  /\ UNCHANGED <<hooks, shim, graph, ssrTransformResult, ssrModule, calls>>

\* The promise ssrImport returned rejected with the error of activation e:
\* the await in the module's code throws, into the code's own catch block
\* when the import is guarded by one, and otherwise out of initModule and
\* through lines 187-199.
ImportThrew(r, e) ==
  IF Code(r.url)[r.ip].t = "try"
  THEN [r EXCEPT !.wait = None, !.ip = @ + 1, !.pc = "run"]
  ELSE [Reject(r, e) EXCEPT !.wait = None]

\* The recursive load awaited at line 132 has settled and its .catch and
\* .finally reactions, queued ahead of the awaiter's, have run: lines
\* 133-139, or the rejection thrown into the module's code and on through
\* the catch block of lines 187-199.
AwaitDone(i) ==
  /\ inst[i].pc = "await"
  /\ LET r == inst[i]
         w == inst[r.wait]
     IN  /\ Settled(w)
         /\ w.cl = "done"
         /\ IF w.pc = "fulfilled"
            THEN /\ pendingImports' =
                      IF Len(r.pendingDeps) = 1
                      THEN [pendingImports EXCEPT ![r.url] = None]
                      ELSE pendingImports
                 /\ inst' = [inst EXCEPT ![i] =
                      [r EXCEPT
                         !.pendingDeps = IF Len(r.pendingDeps) = 1
                                         THEN r.pendingDeps
                                         ELSE Splice(r.pendingDeps, r.dep),
                         !.got = Append(@, [dep |-> r.dep, val |-> w.val,
                                            direct |-> FALSE]),
                         !.wait = None, !.ip = @ + 1, !.pc = "run"]]
            ELSE /\ inst' = [inst EXCEPT ![i] = ImportThrew(r, w.val)]
                 /\ UNCHANGED pendingImports
  /\ UNCHANGED <<hooks, shim, graph, ssrTransformResult, ssrModule, pendingModules, calls>>

\* The module's code calls ssrImport(dep), dep a package specifier: lines
\* 123-125 and nodeImport up to its first suspension.
RunExternal(i, found) ==
  /\ Running(i)
  /\ Op(i).t \in {"import", "try"}
  /\ External(Op(i).arg)
  /\ LET N == nodeImport(hooks, Op(i).arg, found)
     IN  /\ hooks' = N.hooks
         /\ inst' = [inst EXCEPT ![i].pc = "external", ![i].dep = Op(i).arg,
                                 ![i].ext = N.ext]
  /\ UNCHANGED <<shim, graph, ssrTransformResult, ssrModule, pendingModules,
                 pendingImports, calls>>

\* nodeImport settles: the specifier was not found, or the native load
\* returned (ok) or failed; lines 264-269 and 139.
ExternalDone(i, ok) ==
  /\ inst[i].pc = "external"
  /\ inst[i].ext = "notfound" => ~ok
  /\ hooks' = nodeImportExit(hooks, inst[i].ext)
  /\ LET r == [inst[i] EXCEPT !.ext = "none"]
     IN  inst' = [inst EXCEPT ![i] =
                    IF ok
                    THEN [r EXCEPT !.got = Append(@, [dep |-> r.dep, val |-> None,
                                                      direct |-> FALSE]),
                                   !.ip = @ + 1, !.pc = "run"]
                    ELSE ImportThrew(r, i)]
  /\ UNCHANGED <<shim, graph, ssrTransformResult, ssrModule, pendingModules,
                 pendingImports, calls>>

\* function ssrExportAll(sourceModule), lines 153-165: an accessor on r's
\* object for every enumerable key but default that object s has now.  The
\* call is noted in reexp: the source, its keys then, and the position in
\* r's code.
SnapshotAll(r, s) ==
  IF s = None THEN r
  ELSE LET K == inst[s].keys \ {"default"}
       IN  [r EXCEPT !.keys = @ \cup K,
                     !.props = [k \in Keys |->
                                  IF k \in K
                                  THEN [src |-> 0, v |-> ReadKey(s, k, MaxInst)]
                                  ELSE @[k]],
                     !.reexp = Append(@, [src |-> s, keys |-> K, at |-> r.ip])]

ssrExportAll(r, s) ==
  IF s = None THEN r
  ELSE LET K == inst[s].keys \ {"default"}
       IN  [r EXCEPT !.keys = @ \cup K,
                     !.props = [k \in Keys |->
                                  IF k \in K THEN [src |-> s, v |-> NoValue]
                                  ELSE @[k]],
                     !.reexp = Append(@, [src |-> s, keys |-> K, at |-> r.ip])]

\* What the module's code holds as the result of its latest import of d.
Imported(r, d) ==
  LET I == {k \in 1..Len(r.got) : r.got[k].dep = d}
  IN  IF I = {} THEN None
      ELSE r.got[CHOOSE k \in I : \A j \in I : j <= k].val

\* The module's code calls __vite_ssr_exportAll__ on an imported module.
RunExportAll(i) ==
  /\ Running(i)
  /\ Op(i).t = "exportAll"
  /\ inst' = [inst EXCEPT
        ![i] = [ssrExportAll(inst[i], Imported(inst[i], Op(i).arg))
                  EXCEPT !.ip = @ + 1]]
  /\ UNCHANGED <<hooks, shim, graph, ssrTransformResult, ssrModule,
                 pendingModules, pendingImports, calls>>

\* Lines 167-201 once initModule has returned or thrown: the object is
\* frozen only on the successful return.
FreezeAlways(r, threw, i) ==
  IF threw THEN [Reject(r, i) EXCEPT !.frozen = TRUE]
  ELSE [Resolve(r, i) EXCEPT !.frozen = TRUE]

AfterRun(r, threw, i) ==
  IF threw THEN Reject(r, i)
  ELSE [Resolve(r, i) EXCEPT !.frozen = TRUE]

\* initModule returns: return Object.freeze(ssrModule).
Finish(i) ==
  /\ inst[i].pc = "run"
  /\ inst[i].ip > Len(Code(inst[i].url))
  /\ inst' = [inst EXCEPT ![i] = AfterRun(inst[i], FALSE, i)]
  /\ UNCHANGED <<hooks, shim, graph, ssrTransformResult, ssrModule, pendingModules,
                 pendingImports, calls>>

\* The module's code raises while it runs: lines 187-199.
Throw(i) ==
  /\ inst[i].pc = "run"
  /\ inst' = [inst EXCEPT ![i] = AfterRun(inst[i], TRUE, i)]
  /\ UNCHANGED <<hooks, shim, graph, ssrTransformResult, ssrModule, pendingModules,
                 pendingImports, calls>>

\* modulePromise.catch(() => { pendingImports.delete(url) })
CatchCb(i) ==
  /\ inst[i].cl = "catch"
  /\ pendingImports' = IF inst[i].pc = "rejected"
                       THEN [pendingImports EXCEPT ![inst[i].url] = None]
                       ELSE pendingImports
  /\ inst' = [inst EXCEPT ![i].cl = "finally"]
  /\ UNCHANGED <<hooks, shim, graph, ssrTransformResult, ssrModule, pendingModules, calls>>

\* What .finally(() => { pendingModules.delete(url) }) leaves of the table.
DeletePending(pm, u) == [pm EXCEPT ![u] = None]

FinallyCb(i) ==
  /\ inst[i].cl = "finally"
  /\ pendingModules' = DeletePending(pendingModules, inst[i].url)
  /\ inst' = [inst EXCEPT ![i].cl = "done"]
  /\ UNCHANGED <<hooks, shim, graph, ssrTransformResult, ssrModule, pendingImports, calls>>

\* A caller whose load resolved adds or removes key k on the Module Object
\* it received; Object.freeze (line 201) makes the write a no-op.
Mutate(c, k) ==
  /\ inst[calls[c].fut].pc = "fulfilled"
  /\ inst[calls[c].fut].cl = "done"
  /\ LET o == inst[calls[c].fut].val
     IN  inst' = IF inst[o].frozen THEN inst
                 ELSE [inst EXCEPT
                         ![o].keys = IF k \in @ THEN @ \ {k} ELSE @ \cup {k},
                         ![o].props = IF k \in inst[o].keys
                                      THEN [@ EXCEPT ![k] = NoProp]
                                      ELSE DefineOwn(o, k)]
  /\ UNCHANGED <<hooks, shim, graph, ssrTransformResult, ssrModule, pendingModules,
                 pendingImports, calls>>

Next ==
  \/ \E u \in Urls : Load(u)
  \/ \E i \in Insts : EnsureDone(i)
  \/ \E i \in Insts, ok \in BOOLEAN : TransformDone(i, ok)
  \/ \E i \in Insts : RunExport(i)
  \/ \E i \in Insts : RunImport(i)
  \/ \E i \in Insts : AwaitDone(i)
  \/ \E i \in Insts : Finish(i)
  \/ \E i \in Insts : Throw(i)
  \/ \E i \in Insts : CatchCb(i)
  \/ \E i \in Insts : FinallyCb(i)
  \/ \E c \in 1..Len(calls) : Mutate(c, "w")

Spec == Init /\ [][Next]_vars

\* The projects of Programs import project paths only; those that also
\* re-export and import packages take the remaining steps too.  No
\* transform result is cached when they are first loaded.
InitExt ==
  /\ graph \in DOMAIN Projects \ DOMAIN Programs
  /\ ssrTransformResult = {}
  /\ ssrModule = [u \in Ids |-> None]
  /\ pendingModules = [u \in Ids |-> None]
  /\ pendingImports = [u \in Ids |-> None]
  /\ inst = <<>>
  /\ calls = <<>>
  /\ hooks = 0
  /\ shim = NoShim

NextExt ==
  \/ \E u \in Urls : Load(u)
  \/ \E i \in Insts : EnsureDone(i)
  \/ \E i \in Insts, ok \in BOOLEAN : TransformDone(i, ok)
  \/ \E i \in Insts : RunExport(i)
  \/ \E i \in Insts : RunImport(i)
  \/ \E i \in Insts, found \in BOOLEAN : RunExternal(i, found)
  \/ \E i \in Insts, ok \in BOOLEAN : ExternalDone(i, ok)
  \/ \E i \in Insts : RunExportAll(i)
  \/ \E i \in Insts : AwaitDone(i)
  \/ \E i \in Insts : Finish(i)
  \/ \E i \in Insts : Throw(i)
  \/ \E i \in Insts : CatchCb(i)
  \/ \E i \in Insts : FinallyCb(i)
  \/ \E c \in 1..Len(calls) : Mutate(c, "w")

SpecExt == InitExt /\ [][NextExt]_vars

\* The event loop runs every continuation that is ready: a step of some
\* activation is taken as long as one is possible.
Progress ==
  \/ \E i \in Insts : EnsureDone(i)
  \/ \E i \in Insts, ok \in BOOLEAN : TransformDone(i, ok)
  \/ \E i \in Insts : RunExport(i)
  \/ \E i \in Insts : RunImport(i)
  \/ \E i \in Insts, found \in BOOLEAN : RunExternal(i, found)
  \/ \E i \in Insts, ok \in BOOLEAN : ExternalDone(i, ok)
  \/ \E i \in Insts : RunExportAll(i)
  \/ \E i \in Insts : AwaitDone(i)
  \/ \E i \in Insts : Finish(i)
  \/ \E i \in Insts : Throw(i)
  \/ \E i \in Insts : CatchCb(i)
  \/ \E i \in Insts : FinallyCb(i)

\* A project in which /a imports /b and /b imports /a, and a single
\* top-level load, of /a.
Imports(g, u, d) == \E k \in 1..Len(Programs[g][u]) : Programs[g][u][k] = Imp(d)

InitSingle == Init /\ Imports(graph, "/a", "/b") /\ Imports(graph, "/b", "/a")

LoadOnce == calls = <<>> /\ Load("/a")

NextSingle ==
  \/ LoadOnce
  \/ \E i \in Insts : EnsureDone(i)
  \/ \E i \in Insts, ok \in BOOLEAN : TransformDone(i, ok)
  \/ \E i \in Insts : RunExport(i)
  \/ \E i \in Insts : RunImport(i)
  \/ \E i \in Insts : AwaitDone(i)
  \/ \E i \in Insts : Finish(i)
  \/ \E i \in Insts : Throw(i)
  \/ \E i \in Insts : CatchCb(i)
  \/ \E i \in Insts : FinallyCb(i)
  \/ \E c \in 1..Len(calls) : Mutate(c, "w")

SingleSpec == InitSingle /\ [][NextSingle]_vars /\ WF_vars(Progress)

----------------------------------------------------------------------------
\* proxyESM and getDefaultExport, lines 273-312, applied to the value the
\* native load returned.  JavaScript values are tagged records; an object
\* is a function from the keys it has to their values.

Undefined == [t |-> "undefined"]
Null == [t |-> "null"]
True == [t |-> "boolean"]
Num(n) == [t |-> "number", n |-> n]
Obj(f) == [t |-> "object", f |-> f]

\* The captured default when it is the loaded module object itself.
Self == [t |-> "self"]

\* 'in' applied to a value that is not an object.
TypeError == [t |-> "TypeError"]

ShimKeys == {"default", "__esModule", "a"}

\* The objects with keys among ShimKeys whose values come from V.
ObjectsOver(V) ==
  {Obj(f) : f \in UNION {[D -> V] : D \in SUBSET ShimKeys}}

\* What may sit under a module's default key: a primitive, or the exports
\* object of a module of the dynamic-require convention.
Nested ==
  {o \in ObjectsOver({Undefined, Null, True, Num(2), Num(42)}) :
     /\ "__esModule" \in DOMAIN o.f => o.f["__esModule"] = True
     /\ "default" \in DOMAIN o.f => o.f["default"] \in {Undefined, Num(42)}
     /\ "a" \in DOMAIN o.f => o.f["a"] \in {Null, Num(2)}}

\* The values the native load may return.
Loaded ==
  {o \in ObjectsOver({Undefined, Null, True, Num(1), Num(42)} \cup Nested) :
     /\ "__esModule" \in DOMAIN o.f => o.f["__esModule"] = True
     /\ "default" \in DOMAIN o.f
          => o.f["default"] \in {Undefined, Null, Num(42)} \cup Nested
     /\ "a" \in DOMAIN o.f => o.f["a"] \in {Undefined, Null, Num(1)}}

\* What a consumer assigns through the shim.
Written == {Null, Num(7)}

Has(o, k) == k \in DOMAIN o.f

\* o[k]
Get(o, k) == IF o.t = "object" /\ Has(o, k) THEN o.f[k] ELSE Undefined

Truthy(v) == v.t \in {"object", "boolean"} \/ (v.t = "number" /\ v.n # 0)

\* function getDefaultExport(moduleExports), lines 283-312.
getDefaultExport(m) ==
  LET d0 == IF Has(m, "default") THEN Get(m, "default") ELSE Self
      o == IF d0 = Self THEN m ELSE d0
  IN  IF ~Truthy(o) THEN d0
      ELSE IF o.t # "object" THEN TypeError
      ELSE IF Has(o, "__esModule") THEN Get(o, "default")
      ELSE d0

\* defaultExport?.[prop] and the value defaultExport stands for.
Deref(d, m) == IF d = Self THEN m ELSE d

\* The get trap of the Proxy, lines 276-279.
ProxyGet(m, d, k) ==
  IF k = "default" THEN Deref(d, m)
  ELSE IF Get(m, k) \notin {Undefined, Null} THEN Get(m, k)
  ELSE Get(Deref(d, m), k)

\* An assignment through the Proxy: the handler has no set trap, so the
\* target receives it; a module namespace object rejects it.
ProxySet(m, frozen, k, v) ==
  IF frozen THEN m
  ELSE Obj([j \in DOMAIN m.f \cup {k} |-> IF j = k THEN v ELSE m.f[j]])

loader == <<graph, ssrTransformResult, ssrModule, pendingModules,
            pendingImports, inst, calls, hooks>>

\* The native load has returned mod, a module namespace object (frozen) or
\* the exports object require returned.
InitShim ==
  /\ graph = 1
  /\ ssrTransformResult = {}
  /\ ssrModule = [u \in Ids |-> None]
  /\ pendingModules = [u \in Ids |-> None]
  /\ pendingImports = [u \in Ids |-> None]
  /\ inst = <<>>
  /\ calls = <<>>
  /\ hooks = 0
  /\ \E m \in Loaded, fr \in BOOLEAN :
       shim = [pc |-> "loaded", mod |-> m, orig |-> m, frozen |-> fr,
               def |-> Undefined, key |-> "", out |-> Undefined]

\* return proxyESM(mod), line 266.
proxyESM ==
  /\ shim.pc = "loaded"
  /\ LET d == getDefaultExport(shim.mod)
     IN  shim' = IF d = TypeError THEN [shim EXCEPT !.pc = "threw"]
                 ELSE [shim EXCEPT !.pc = "view", !.def = d]
  /\ UNCHANGED loader

\* A consumer reads key k through the shim; key and out record the read
\* until the next assignment.
ShimGet(k) ==
  /\ shim.pc = "view"
  /\ shim' = [shim EXCEPT !.key = k, !.out = ProxyGet(shim.mod, shim.def, k)]
  /\ UNCHANGED loader

\* A consumer assigns v to key k through the shim.
ShimSet(k, v) ==
  /\ shim.pc = "view"
  /\ shim' = [shim EXCEPT !.mod = ProxySet(shim.mod, shim.frozen, k, v),
                          !.key = ""]
  /\ UNCHANGED loader

NextShim ==
  \/ proxyESM
  \/ \E k \in ShimKeys : ShimGet(k)
  \/ \E k \in {"a", "default"}, v \in Written : ShimSet(k, v)

ShimSpec == InitShim /\ [][NextShim]_vars

----------------------------------------------------------------------------
\* Derived notions used by the properties.

\* The activations of u that ran u's code in the sandbox.
RunsOf(u) == {i \in Insts : inst[i].url = u /\ inst[i].obj}

\* The activations of u that invoked the transform collaborator.
TransformsOf(u) == {i \in Insts : inst[i].url = u /\ inst[i].tr \in {"called", "ok", "fail"}}

\* The export names u's code defines.
ExportsOf(u) == {Code(u)[k].arg : k \in {n \in 1..Len(Code(u)) : Code(u)[n].t = "export"}}

\* i is suspended on the promise of j.
WaitsOn(i, j) == inst[i].pc = "await" /\ inst[i].wait = j /\ InFlight(j)

RECURSIVE Closure(_, _)
Closure(S, n) ==
  IF n = 0 THEN S
  ELSE Closure(S \cup {j \in Insts : \E i \in S : WaitsOn(i, j)}, n - 1)

\* What a requester of a settled promise observes: the Module Object, or the
\* failure (its kind and the module it arose in).
Outcome(i) ==
  IF inst[i].pc = "fulfilled" THEN <<"object", inst[i].val>>
  ELSE <<IF inst[inst[i].val].tr = "fail" THEN "TransformUnavailable"
         ELSE "EvaluationFailure", inst[inst[i].val].url>>

----------------------------------------------------------------------------
\* C1: at most one instantiation of an identifier is in flight at any time,
\* and while it is in flight the Pending Instantiation Table holds its
\* promise, under every interleaving of top-level and recursive loads.
C1_OneInFlight ==
  \A i \in Insts :
    InFlight(i) =>
      /\ pendingModules[inst[i].url] = i
      /\ \A j \in Insts : (j # i /\ inst[j].url = inst[i].url) => ~InFlight(j)

\* A top-level load and a recursive load both met one in-flight instantiation.
C1_Witness ==
  \E i \in Insts, c \in 1..Len(calls) :
    /\ inst[i].pc = "await"
    /\ inst[i].wait = calls[c].fut
    /\ InFlight(calls[c].fut)
    /\ inst[calls[c].fut].pc = "run"

\* C2: a load (top-level or recursive) of an identifier issued while its
\* instantiation is in flight receives the promise of that instantiation,
\* the identifier's code is run in the sandbox at most once, and exactly
\* once when the promise resolves.
C2_SameFutureStep ==
  \A j \in Insts :
    InFlight(j) =>
      /\ (Len(calls') > Len(calls) /\ calls'[Len(calls')].url = inst[j].url)
            => calls'[Len(calls')].fut = j
      /\ \A i \in Insts :
           (inst[i].pc = "run" /\ inst'[i].pc = "await"
              /\ inst'[i].dep = inst[j].url) => inst'[i].wait = j

\* C2: loads of an identifier issued while it is in flight share its
\* promise in every step, and its code runs once for them.
C2_Dedup ==
  /\ [][C2_SameFutureStep]_vars
  /\ [](\A u \in Urls : Cardinality(RunsOf(u)) <= 1)
  /\ [](\A i \in Insts :
         inst[i].pc = "fulfilled" => Cardinality(RunsOf(inst[i].url)) = 1)

\* Two top-level loads share one promise, which resolved after the code ran.
C2_Witness ==
  \E c \in 1..Len(calls), d \in 1..Len(calls) :
    /\ c # d
    /\ calls[c].fut = calls[d].fut
    /\ inst[calls[c].fut].pc = "fulfilled"
    /\ inst[calls[c].fut].obj

\* C3 as stated: the transform collaborator is invoked at most once per
\* identifier over any sequence of loads, retries after a failure included.
C3_TransformAtMostOnce == \A u \in Urls : Cardinality(TransformsOf(u)) <= 1

\* C3 amended: every invocation of the transform collaborator for an
\* identifier but the first follows only invocations that produced no
\* result; once one is outstanding or has produced a result none follows.
C3_TransformOncePerResult ==
  \A i \in Insts, j \in Insts :
    (i < j /\ inst[i].url = inst[j].url /\ j \in TransformsOf(inst[j].url))
      => inst[i].tr = "fail"

\* A load failed for want of a transform result and the retry obtained one.
C3_Witness ==
  \E i \in Insts, j \in Insts :
    /\ i < j
    /\ inst[i].url = inst[j].url
    /\ inst[i].tr = "fail"
    /\ inst[j].tr = "ok"

\* C4: no state is reachable in which in-flight instantiations wait on each
\* other's promises in a cycle.
C4_NoWaitCycle ==
  \A i \in Insts, j \in Insts :
    WaitsOn(i, j) => i \notin Closure({j}, Len(inst))

\* C5: with /a and /b importing each other and a single load of /a, the
\* load settles; /b's import of /a does not wait and receives the object
\* attached to /a's record, which is the object the load resolves with and
\* then holds all of /a's exports.
C5_View ==
  \A i \in Insts : \A k \in 1..Len(inst[i].got) :
    (inst[i].url = "/b" /\ inst[i].got[k].dep = "/a") =>
      /\ inst[i].got[k].direct
      /\ inst[i].got[k].val # None
      /\ inst[i].got[k].val = ssrModule["/a"]
      /\ inst[calls[1].fut].pc = "fulfilled" =>
           /\ inst[calls[1].fut].val = inst[i].got[k].val
           /\ inst[inst[i].got[k].val].keys = ExportsOf("/a")

C5_Settled ==
  /\ calls # <<>>
  /\ Settled(inst[calls[1].fut])
  /\ inst[calls[1].fut].cl = "done"

\* C5: the single load of /a always settles, and /b's view of /a is the
\* object that load resolves with.
C5_CycleSafety == ((calls # <<>>) ~> C5_Settled) /\ []C5_View

\* The load of /a resolved, and /b had read /a's object while it was partial.
C5_Witness ==
  /\ C5_Settled
  /\ inst[calls[1].fut].pc = "fulfilled"
  /\ \E i \in Insts : \E k \in 1..Len(inst[i].got) :
       /\ inst[i].url = "/b"
       /\ inst[i].got[k].dep = "/a"
       /\ inst[i].got[k].val = inst[calls[1].fut].val
       /\ inst[i].pc = "fulfilled"

\* C6: the Module Object a load resolved with is frozen, whatever loads of
\* the identifier came before.
C6_ResolvedIsFrozen ==
  \A i \in Insts : inst[i].pc = "fulfilled" => inst[inst[i].val].frozen

\* C7: per identifier the code is executed by one instantiation only and
\* all requesters observe one outcome: the same object or the same failure.
C7_OneOutcome ==
  /\ \A u \in Urls : Cardinality(RunsOf(u)) <= 1
  /\ \A i \in Insts, j \in Insts :
       (inst[i].url = inst[j].url /\ Settled(inst[i]) /\ Settled(inst[j]))
         => Outcome(i) = Outcome(j)

\* C8: once a failed instantiation's reactions have run its table entry is
\* gone, and the fresh instantiation a later load starts re-attempts the
\* module: it does not resolve with what a failed run left on the record.
C8_RetryReattempts ==
  /\ \A i \in Insts :
       (inst[i].pc = "rejected" /\ inst[i].cl = "done")
         => pendingModules[inst[i].url] # i
  /\ \A j \in Insts :
       inst[j].via = "record" => inst[inst[j].val].pc # "rejected"

\* C9: a populated module-object slot keeps its object in every step, and
\* an instantiation that finds the slot populated resolves with that object
\* and creates none.
C9_SlotStep ==
  /\ \A u \in Urls : ssrModule[u] # None => ssrModule'[u] = ssrModule[u]
  /\ \A i \in Insts :
       (inst[i].pc = "ensure" /\ ssrModule[inst[i].url] # None
          /\ inst'[i] # inst[i])
         => /\ inst'[i].pc = "fulfilled"
            /\ inst'[i].val = ssrModule[inst[i].url]
            /\ ~inst'[i].obj

\* C9: in every step a Module Object once assigned to a record stays.
C9_NeverReplaced == [][C9_SlotStep]_vars

\* A retry after an evaluation failure resolved with the object the failed
\* run had attached, which is still the one on the record.
C9_Witness ==
  \E i \in Insts, j \in Insts :
    /\ inst[i].pc = "rejected"
    /\ inst[i].obj
    /\ inst[j].via = "record"
    /\ inst[j].val = i
    /\ ssrModule[inst[i].url] = i

\* C10: a frozen object belongs to a module whose run returned without
\* error, the object of a module whose run is in flight is not frozen, and
\* after an evaluation failure the record keeps the unfrozen object.
C10_FrozenOnlyAfterSuccess ==
  \A o \in Insts :
    /\ inst[o].frozen =>
         /\ inst[o].obj
         /\ inst[o].pc = "fulfilled"
         /\ inst[o].val = o
         /\ inst[o].ip > Len(Code(inst[o].url))
    /\ (inst[o].obj /\ inst[o].pc \in {"run", "await", "external"})
         => ~inst[o].frozen
    /\ (inst[o].obj /\ inst[o].pc = "rejected") =>
         /\ ssrModule[inst[o].url] = o
         /\ ~inst[o].frozen

\* One module failed while partially populated, another was frozen.
C10_Witness ==
  \E o \in Insts, p \in Insts :
    /\ inst[o].obj
    /\ inst[o].pc = "rejected"
    /\ inst[o].cl = "done"
    /\ inst[o].keys # {}
    /\ inst[p].frozen

\* C11: the resolution hook nodeImport installs is removed on every exit
\* path (native load succeeded, native load failed, specifier not found):
\* once every external load has settled no hook remains installed.
C11_NoHookLeak ==
  (\A i \in Insts : inst[i].pc # "external") => hooks = 0

\* C12: for every loaded module m a shim is obtained whose default is d,
\* where d0 is m's default field if m has one and m itself otherwise, and
\* d is d0's nested default only if d0 carries the wrapper flag together
\* with a default field of its own, d0 otherwise.
C12_Expected(m) ==
  LET d0 == IF Has(m, "default") THEN Get(m, "default") ELSE Self
      o == IF d0 = Self THEN m ELSE d0
  IN  IF o.t = "object" /\ Has(o, "__esModule") /\ Has(o, "default")
      THEN Get(o, "default")
      ELSE d0

C12_DefaultUnwrap ==
  /\ shim.pc # "threw"
  /\ (shim.pc = "view" /\ shim.key = "default")
       => shim.out = Deref(C12_Expected(shim.orig), shim.mod)

\* C13: a read of a key other than default through the shim yields the
\* live module's value whenever the module has the key, null and undefined
\* included, and the computed default's value for the key only when the
\* module has not.
C13_KeyFallback ==
  (shim.pc = "view" /\ shim.key \notin {"", "default"})
    => shim.out = IF Has(shim.mod, shim.key) THEN Get(shim.mod, shim.key)
                  ELSE Get(Deref(shim.def, shim.mod), shim.key)

\* C14: neither constructing the shim, nor reading a key through it, nor
\* writing a key through it changes the loaded module's keys or values.
C14_NoMutation ==
  shim.pc \in {"loaded", "view", "threw"} => shim.mod = shim.orig

\* C15 as stated: after export-all of S onto M, a read of M[k] yields S's
\* current value of k, for every key k but default that S had at the
\* call, in every later state; and M has a default key only when M's own
\* code defined one.
C15_AlwaysSource ==
  \A m \in Insts : \A e \in 1..Len(inst[m].reexp) :
    \A k \in inst[m].reexp[e].keys :
      ReadKey(m, k, MaxInst) = ReadKey(inst[m].reexp[e].src, k, MaxInst)

\* M's code has defined k itself, or re-exported it from another call,
\* since the export-all call noted as entry e.
C15_Redefined(m, e, k) ==
  \/ \E n \in (inst[m].reexp[e].at + 1)..(inst[m].ip - 1) :
       n <= Len(Code(inst[m].url)) /\ Code(inst[m].url)[n] = Exp(k)
  \/ \E f \in (e + 1)..Len(inst[m].reexp) : k \in inst[m].reexp[f].keys

\* C15 amended: the read yields S's current value as long as M has not
\* defined k anew since the call; export-all never installs default.
C15_LiveReexport ==
  /\ \A m \in Insts : \A e \in 1..Len(inst[m].reexp) :
       \A k \in inst[m].reexp[e].keys :
         /\ k # "default"
         /\ ~C15_Redefined(m, e, k) =>
              ReadKey(m, k, MaxInst) = ReadKey(inst[m].reexp[e].src, k, MaxInst)
  /\ \A m \in Insts :
       "default" \in inst[m].keys =>
         \E n \in 1..(inst[m].ip - 1) : Code(inst[m].url)[n] = Exp("default")

\* /b re-exported y from /c, which had a default export and has assigned y
\* again since; /b is finished and reads the new value.
C15_Witness ==
  \E m \in Insts : \E e \in 1..Len(inst[m].reexp) :
    /\ inst[m].frozen
    /\ "y" \in inst[m].reexp[e].keys
    /\ ~C15_Redefined(m, e, "y")
    /\ "default" \in inst[inst[m].reexp[e].src].keys
    /\ ReadKey(m, "y", MaxInst) = [by |-> inst[m].reexp[e].src, n |-> 2]

\* C16: when M called export-all on a source S that was still being
\* populated, the keys S defines afterwards show on M too: once both have
\* finished M exposes every key of S but default.
C16_LateKeysReexported ==
  \A m \in Insts : \A e \in 1..Len(inst[m].reexp) :
    (inst[m].frozen /\ inst[inst[m].reexp[e].src].frozen)
      => inst[inst[m].reexp[e].src].keys \ {"default"} \subseteq inst[m].keys

\* C17: for every module whose run is in flight the Pending Import Table
\* lists under its identifier exactly the dependencies it is waiting on
\* through a recursive load, be the import its first or a later one, and
\* has no entry for it exactly when it is waiting on none.
C17_ExactBookkeeping ==
  \A i \in Insts :
    (inst[i].obj /\ InFlight(i)) =>
      IF inst[i].pc = "await"
      THEN /\ pendingImports[inst[i].url] = i
           /\ {PendingOf(inst[i].url)[k] : k \in 1..Len(PendingOf(inst[i].url))}
                = {inst[i].dep}
      ELSE pendingImports[inst[i].url] = None

\* C18: a step of ssrImport for a specifier that starts with neither '.'
\* nor '/', and the settling of the external load it started, leave the
\* Pending Instantiation Table, the Pending Import Table, the importer's
\* pending list and every Module Record as they were, whatever the call
\* chain.
C18_ExternalStep ==
  \A i \in Insts :
    (\/ /\ Running(i)
        /\ Op(i).t \in {"import", "try"}
        /\ FirstChar[Op(i).arg] \notin {".", "/"}
        /\ inst'[i] # inst[i]
     \/ /\ inst[i].pc = "external"
        /\ inst'[i] # inst[i])
      => /\ pendingModules' = pendingModules
         /\ pendingImports' = pendingImports
         /\ inst'[i].pendingDeps = inst[i].pendingDeps
         /\ ssrModule' = ssrModule
         /\ ssrTransformResult' = ssrTransformResult
         /\ Len(inst') = Len(inst)

\* C18: in every step an external import leaves the tables, the
\* importer's pending list and the module records unchanged.
C18_ExternalFrame == [][C18_ExternalStep]_vars

\* /a, imported by /c, has imported a package and a builtin while the
\* tables held entries.
C18_Witness ==
  \E i \in Insts :
    /\ Len(inst[i].stack) > 1
    /\ \E k \in 1..Len(inst[i].got) : inst[i].got[k].dep = "pkg"
    /\ inst[i].pc = "external"
    /\ inst[i].dep = "node:fs"
    /\ \E u \in Urls : pendingImports[u] # None
    /\ \E u \in Urls : pendingModules[u] # None

\* C19: when no instantiation is in flight and every settle callback has
\* run, the Pending Import Table is empty, also after a dependency's load
\* failed and the importing module caught the failure and completed.
C19_QuiescentEmpty ==
  (\A i \in Insts : Settled(inst[i]) /\ inst[i].cl = "done")
    => \A u \in Ids : pendingImports[u] = None

\* C20: whenever ssrImport skips the recursive load, because the
\* dependency is on the call chain or because its Pending Import Table
\* entry holds an identifier of the chain, the dependency's record has a
\* Module Object and the import returns it, never undefined.
C20_ShortCircuitDefined ==
  \A i \in Insts : \A k \in 1..Len(inst[i].got) :
    inst[i].got[k].direct =>
      /\ inst[i].got[k].val # None
      /\ inst[i].got[k].val = ssrModule[inst[i].got[k].dep]

\* One import was skipped for a dependency on the chain, another for a
\* dependency off the chain whose pending list held the importer.
C20_Witness ==
  /\ \E i \in Insts : \E k \in 1..Len(inst[i].got) :
       /\ inst[i].got[k].direct
       /\ isCircular(inst[i].stack, inst[i].got[k].dep)
  /\ \E i \in Insts : \E k \in 1..Len(inst[i].got) :
       /\ inst[i].got[k].direct
       /\ ~isCircular(inst[i].stack, inst[i].got[k].dep)

====
